---- MODULE Spec2Model ----
(***************************************************************************)
(* MAX7219.js: the controller object of src/MAX7219.js, driving an SPI     *)
(* transport (spi-device).  The state is the object's fields; every public *)
(* method is one action.  The transport is modelled at its interface:      *)
(* openSync yields a handle, closeSync closes it, transfer receives a      *)
(* 2-byte frame.  `frames` holds the frames the last call handed to        *)
(* transfer, in order.                                                     *)
(***************************************************************************)
EXTENDS Integers, Sequences, FiniteSets, TLC

\* ---------------------------------------------------------------- bounds
\* Largest chain length tried by the constructor.
MaxControllers == 2
\* Brightness arguments range over -1..MaxBrightnessArg.
MaxBrightnessArg == 16
\* Scan-limit arguments range over -1..MaxLimitArg.
MaxLimitArg == 9
\* Digit arguments range over -1..MaxDigitArg.
MaxDigitArg == 8
\* Bit vectors handed to the methods have length 0..MaxVecLen.
MaxVecLen == 9

\* ---------------------------------------------------------------- state
VARIABLES
  activeController,  \* this._activeController
  totalControllers,  \* this._totalControllers
  spi,               \* this._spi: the handle the object refers to
  openHandles,       \* transport side: handles opened and not yet closed
  decodeModes,       \* this._decodeModes (Unset until first stored)
  op,                \* name of the last method called
  argN,              \* its numeric argument
  argByte,           \* its byte argument
  argBits,           \* its array argument
  argSym,            \* its symbol argument
  argDp,             \* its dp argument
  result,            \* "ok" or the thrown error
  retVal,            \* value returned by the call, if any
  frames             \* frames handed to transfer during the call

ctl == <<activeController, totalControllers, spi, openHandles, decodeModes>>
call == <<op, argN, argByte, argBits, argSym, argDp, result, retVal, frames>>
vars == <<activeController, totalControllers, spi, openHandles, decodeModes,
          op, argN, argByte, argBits, argSym, argDp, result, retVal, frames>>

\* ---------------------------------------------------------------- constants
Registers ==
  [NoOp |-> 0, Digit0 |-> 1, Digit1 |-> 2, Digit2 |-> 3, Digit3 |-> 4,
   Digit4 |-> 5, Digit5 |-> 6, Digit6 |-> 7, Digit7 |-> 8, DecodeMode |-> 9,
   Intensity |-> 10, ScanLimit |-> 11, Shutdown |-> 12, DisplayTest |-> 15]

\* MAX7219._Font, values in decimal; the key "deg" stands for the degree sign.
Font ==
  ("0" :> 126) @@ ("1" :> 48) @@ ("2" :> 109) @@ ("3" :> 121) @@ ("4" :> 51) @@
  ("5" :> 91) @@ ("6" :> 95) @@ ("7" :> 112) @@ ("8" :> 127) @@ ("9" :> 123) @@
  ("a" :> 119) @@ ("b" :> 31) @@ ("c" :> 13) @@ ("d" :> 61) @@ ("E" :> 79) @@
  ("e" :> 111) @@ ("f" :> 71) @@ ("g" :> 123) @@ ("H" :> 55) @@ ("h" :> 23) @@
  ("i" :> 16) @@ ("j" :> 60) @@ ("k" :> 87) @@ ("l" :> 14) @@ ("m" :> 118) @@
  ("n" :> 21) @@ ("o" :> 29) @@ ("p" :> 103) @@ ("q" :> 115) @@ ("r" :> 5) @@
  ("s" :> 91) @@ ("t" :> 15) @@ ("u" :> 28) @@ ("v" :> 28) @@ ("w" :> 28) @@
  ("x" :> 55) @@ ("y" :> 59) @@ ("z" :> 109) @@ ("-" :> 1) @@ ("_" :> 8) @@
  ("[" :> 78) @@ ("(" :> 78) @@ ("]" :> 120) @@ (")" :> 120) @@ ("deg" :> 99) @@
  ("!" :> 160) @@ ("'" :> 32) @@ ("." :> 128)

BLANK == 0

\* Identifiers bound at module scope of MAX7219.js.
ModuleScope == {"fs", "SPI", "NO_OP", "MAX7219"}

\* A free identifier resolves when it is a parameter of the enclosing
\* function or a module-level binding; otherwise reading it throws
\* ReferenceError.
Resolves(id, params) == id \in params \cup ModuleScope

\* Values of this._decodeModes and this._spi before they are assigned.
Unset == <<>>
NoHandle == [id |-> 0, device |-> 0]

\* Error values.
ErrBounds == "Controller index is out of bounds"
ErrDecode == "Invalid decode mode array"
ErrDigit == "Invalid digit number"
ErrSegments == "Invalid segments array"
ErrBrightness == "Invalid brightness number"
ErrScanLimit == "Invalid scan limit number"
ErrSpi == "SPI device not initialized"
ErrReference == "ReferenceError"

\* ---------------------------------------------------------------- codec
\* v << k on small non-negative integers.
Shl(v, k) == v * (2 ^ k)

\* bits[i] as an operand of <<: a missing element (undefined) shifts to 0.
ShiftOperand(bits, i) == IF i + 1 \in DOMAIN bits THEN bits[i + 1] ELSE 0

\* bits[0] is undefined for an empty array, and undefined + number is NaN.
encodeByteIsNaN(bits) == Len(bits) = 0

encodeByteMsbFirst(bits) ==
  Shl(bits[1], 7) +
  Shl(ShiftOperand(bits, 1), 6) +
  Shl(ShiftOperand(bits, 2), 5) +
  Shl(ShiftOperand(bits, 3), 4) +
  Shl(ShiftOperand(bits, 4), 3) +
  Shl(ShiftOperand(bits, 5), 2) +
  Shl(ShiftOperand(bits, 6), 1) +
  ShiftOperand(bits, 7)

\* The numeric result of encodeByte for a non-empty array.
encodeByte(bits) ==
  bits[1] +
  Shl(ShiftOperand(bits, 1), 1) +
  Shl(ShiftOperand(bits, 2), 2) +
  Shl(ShiftOperand(bits, 3), 3) +
  Shl(ShiftOperand(bits, 4), 4) +
  Shl(ShiftOperand(bits, 5), 5) +
  Shl(ShiftOperand(bits, 6), 6) +
  Shl(ShiftOperand(bits, 7), 7)

\* Buffer.from([...]) stores each number modulo 256.
ToUint8(v) == v % 256

\* The send buffer built by _shiftOut.
Frame(firstByte, secondByte) == <<ToUint8(firstByte), ToUint8(secondByte)>>

\* a | b on bytes.
RECURSIVE BitOr(_, _)
BitOr(a, b) ==
  IF a = 0 THEN b
  ELSE IF b = 0 THEN a
  ELSE (IF a % 2 = 1 \/ b % 2 = 1 THEN 1 ELSE 0) + 2 * BitOr(a \div 2, b \div 2)

\* MAX7219._Registers["Digit" + n]; the key is absent for n outside 0..7 and
\* the undefined value is stored by Buffer.from as 0.
DigitRegisterByte(n) == IF n \in 0..7 THEN Registers.Digit0 + n ELSE 0

\* symbol in MAX7219._Font
FontHas(symbol) == symbol \in DOMAIN Font

SymbolByteAdd(symbol, dp) ==
  (IF ~FontHas(symbol) THEN BLANK ELSE Font[symbol]) + (IF dp THEN Shl(1, 7) ELSE 0)

\* hexSymbol | (dp ? (1 << 7) : 0)
SymbolByte(symbol, dp) ==
  BitOr(IF ~FontHas(symbol) THEN BLANK ELSE Font[symbol],
        IF dp THEN Shl(1, 7) ELSE 0)

\* ---------------------------------------------------------------- guards
ControllerIndexOutOfBoundsLax(index, total) == index < 0 \/ index > total

ControllerIndexOutOfBounds(index, total) == index < 0 \/ index >= total

InvalidDecodeModeArray(modes) == Len(modes) # 8

InvalidDigitNumber(n) == n < 0 \/ n > 7

InvalidSegmentsArray(segments) == Len(segments) # 8

InvalidBrightness(brightness) == brightness < 0 \/ brightness > 15

InvalidScanLimitLax(limit) == limit < 0 \/ limit > 8

InvalidScanLimit(limit) == limit < 1 \/ limit > 8

\* !this._spi
SpiMissing(handle) == handle = NoHandle

ClearAlwaysDefaults(modes) == TRUE

\* !this._decodeModes
DecodeModesMissing(modes) == modes = Unset

setActiveControllerParams == {"index"}
setDigitSegmentsParams == {"n", "segment", "callback"}

\* ---------------------------------------------------------------- inputs
Vec(len, S) == [i \in 1..len |-> IF (i - 1) \in S THEN 1 ELSE 0]
AllOn == 0..(MaxVecLen - 1)
Evens == {k \in AllOn : k % 2 = 0}
Odds == {k \in AllOn : k % 2 = 1}
OnSets == {{}, AllOn, Evens, Odds, {0}, {3}, {7}}
\* 8-element vectors, and vectors of every other length up to MaxVecLen.
GoodVectors == {Vec(8, S) : S \in OnSets}
BadVectors == {Vec(len, S) : len \in (0..MaxVecLen) \ {8}, S \in {AllOn, Evens}}
Vectors == GoodVectors \cup BadVectors
SegVectors == {Vec(len, Evens) : len \in (MaxVecLen - 2)..MaxVecLen} \cup {Vec(8, AllOn)}
Symbols == {"9", "!", " ", "L"}
Bytes == {0, 85, 255}
DigitArgs == -1..MaxDigitArg
BrightnessArgs == -1..MaxBrightnessArg
LimitArgs == -1..MaxLimitArg
IndexArgs == -1..MaxControllers

\* ---------------------------------------------------------------- calls
\* Record of the call just made.
Done(o, n, b, bits, sym, dp, res, ret, fr) ==
  /\ op' = o
  /\ argN' = n
  /\ argByte' = b
  /\ argBits' = bits
  /\ argSym' = sym
  /\ argDp' = dp
  /\ result' = res
  /\ retVal' = ret
  /\ frames' = fr

\* _shiftOut(firstByte, secondByte): the error it throws, or the frame it
\* hands to this._spi.transfer.  The guard tests only that this._spi is set,
\* so a frame is handed over whether or not the handle is still open.
ShiftOut(firstByte, secondByte) ==
  IF SpiMissing(spi)
  THEN [result |-> ErrSpi, frames |-> <<>>]
  ELSE [result |-> "ok", frames |-> <<Frame(firstByte, secondByte)>>]

\* A method that is one _shiftOut of a fixed frame.
RegisterWrite(name, register, data) ==
  LET r == ShiftOut(register, data) IN
  /\ Done(name, 0, 0, <<>>, "", FALSE, r.result, 0, r.frames)
  /\ UNCHANGED ctl

Init ==
  \E device \in 0..(MaxControllers - 1), count \in 0..MaxControllers :
    /\ activeController = device
    /\ totalControllers = (IF count = 0 THEN 1 ELSE count)
    /\ spi = [id |-> 1, device |-> device]
    /\ openHandles = {[id |-> 1, device |-> device]}
    /\ decodeModes = Unset
    /\ op = "new"
    /\ argN = 0
    /\ argByte = 0
    /\ argBits = <<>>
    /\ argSym = ""
    /\ argDp = FALSE
    /\ result = "ok"
    /\ retVal = 0
    /\ frames = <<>>

setActiveController ==
  \E index \in IndexArgs :
    IF ControllerIndexOutOfBounds(index, totalControllers)
    THEN /\ Done("setActiveController", index, 0, <<>>, "", FALSE, ErrBounds, 0, <<>>)
         /\ UNCHANGED ctl
    ELSE \* this._spi.closeSync()
         IF Resolves("bus", setActiveControllerParams)
         THEN LET h == [id |-> spi.id + 1, device |-> index] IN
              /\ spi' = h
              /\ openHandles' = (openHandles \ {spi}) \cup {h}
              /\ activeController' = index
              /\ UNCHANGED <<totalControllers, decodeModes>>
              /\ Done("setActiveController", index, 0, <<>>, "", FALSE, "ok", 0, <<>>)
         ELSE /\ openHandles' = openHandles \ {spi}
              /\ UNCHANGED <<activeController, totalControllers, spi, decodeModes>>
              /\ Done("setActiveController", index, 0, <<>>, "", FALSE, ErrReference, 0, <<>>)

getActiveController ==
  /\ Done("getActiveController", 0, 0, <<>>, "", FALSE, "ok", activeController, <<>>)
  /\ UNCHANGED ctl

startup == RegisterWrite("startup", Registers.Shutdown, 1)

shutdown == RegisterWrite("shutdown", Registers.Shutdown, 0)

startDisplayTest == RegisterWrite("startDisplayTest", Registers.DisplayTest, 1)

stopDisplayTest == RegisterWrite("stopDisplayTest", Registers.DisplayTest, 0)

\* The body of setDecodeMode(modes), called as `name`.
DecodeModeCall(name, modes) ==
  IF InvalidDecodeModeArray(modes)
  THEN /\ Done(name, 0, 0, modes, "", FALSE, ErrDecode, 0, <<>>)
       /\ UNCHANGED ctl
  ELSE LET r == ShiftOut(Registers.DecodeMode, encodeByte(modes)) IN
       /\ decodeModes' = modes
       /\ UNCHANGED <<activeController, totalControllers, spi, openHandles>>
       /\ Done(name, 0, 0, modes, "", FALSE, r.result, 0, r.frames)

setDecodeMode == \E modes \in Vectors : DecodeModeCall("setDecodeMode", modes)

setDecodeNone == DecodeModeCall("setDecodeNone", <<0, 0, 0, 0, 0, 0, 0, 0>>)

setDecodeAll == DecodeModeCall("setDecodeAll", <<1, 1, 1, 1, 1, 1, 1, 1>>)

\* setDigitSegmentsByte(n, byte) as a result.
DigitSegmentsByteResult(n, byte) == ShiftOut(DigitRegisterByte(n), byte)

\* setDigitSymbol(n, symbol, dp) as a result.
DigitSymbolResult(n, symbol, dp) ==
  IF InvalidDigitNumber(n)
  THEN [result |-> ErrDigit, frames |-> <<>>]
  ELSE ShiftOut(DigitRegisterByte(n), SymbolByte(symbol, dp))

setDigitSegments ==
  \E n \in DigitArgs, bits \in SegVectors :
    /\ Done("setDigitSegments", n, 0, bits, "", FALSE,
            IF InvalidDigitNumber(n) THEN ErrDigit
            ELSE IF ~Resolves("segments", setDigitSegmentsParams) THEN ErrReference
            ELSE IF InvalidSegmentsArray(bits) THEN ErrSegments
            ELSE DigitSegmentsByteResult(n, encodeByte(bits)).result,
            0,
            IF InvalidDigitNumber(n) THEN <<>>
            ELSE IF ~Resolves("segments", setDigitSegmentsParams) THEN <<>>
            ELSE IF InvalidSegmentsArray(bits) THEN <<>>
            ELSE DigitSegmentsByteResult(n, encodeByte(bits)).frames)
    /\ UNCHANGED ctl

setDigitSegmentsByte ==
  \E n \in DigitArgs, byte \in Bytes :
    LET r == DigitSegmentsByteResult(n, byte) IN
    /\ Done("setDigitSegmentsByte", n, byte, <<>>, "", FALSE, r.result, 0, r.frames)
    /\ UNCHANGED ctl

setDigitSymbol ==
  \E n \in DigitArgs, symbol \in Symbols, dp \in BOOLEAN :
    LET r == DigitSymbolResult(n, symbol, dp) IN
    /\ Done("setDigitSymbol", n, 0, <<>>, symbol, dp, r.result, 0, r.frames)
    /\ UNCHANGED ctl

\* The for loop of clearDisplay from index i (0-based) on; a throw ends it.
RECURSIVE ClearLoop(_, _)
ClearLoop(modes, i) ==
  IF ~(i < Len(modes))
  THEN [result |-> "ok", frames |-> <<>>]
  ELSE LET r == IF modes[i + 1] = 0
                THEN DigitSegmentsByteResult(i, 0)
                ELSE DigitSymbolResult(i, " ", FALSE)
       IN IF r.result # "ok"
          THEN r
          ELSE LET rest == ClearLoop(modes, i + 1) IN
               [result |-> rest.result, frames |-> r.frames \o rest.frames]

clearDisplay ==
  LET none == <<0, 0, 0, 0, 0, 0, 0, 0>>
      first == IF DecodeModesMissing(decodeModes)
               THEN ShiftOut(Registers.DecodeMode, encodeByte(none))
               ELSE [result |-> "ok", frames |-> <<>>]
      modes == IF DecodeModesMissing(decodeModes) THEN none ELSE decodeModes
      loop == IF first.result = "ok" THEN ClearLoop(modes, 0)
              ELSE [result |-> first.result, frames |-> <<>>]
  IN /\ decodeModes' = modes
     /\ UNCHANGED <<activeController, totalControllers, spi, openHandles>>
     /\ Done("clearDisplay", 0, 0, <<>>, "", FALSE, loop.result, 0,
             first.frames \o loop.frames)

setDisplayIntensity ==
  \E brightness \in BrightnessArgs :
    LET r == IF InvalidBrightness(brightness)
             THEN [result |-> ErrBrightness, frames |-> <<>>]
             ELSE ShiftOut(Registers.Intensity, brightness)
    IN /\ Done("setDisplayIntensity", brightness, 0, <<>>, "", FALSE, r.result, 0, r.frames)
       /\ UNCHANGED ctl

setScanLimit ==
  \E limit \in LimitArgs :
    LET r == IF InvalidScanLimit(limit)
             THEN [result |-> ErrScanLimit, frames |-> <<>>]
             ELSE ShiftOut(Registers.ScanLimit, limit - 1)
    IN /\ Done("setScanLimit", limit, 0, <<>>, "", FALSE, r.result, 0, r.frames)
       /\ UNCHANGED ctl

\* A direct call of the public utility encodeByte(bits).
encodeByteCall ==
  \E bits \in Vectors :
    /\ Done("encodeByte", 0, 0, bits, "", FALSE,
            IF encodeByteIsNaN(bits) THEN "NaN" ELSE "ok",
            IF encodeByteIsNaN(bits) THEN 0 ELSE encodeByte(bits),
            <<>>)
    /\ UNCHANGED ctl

Next ==
  \/ setActiveController
  \/ getActiveController
  \/ startup
  \/ shutdown
  \/ startDisplayTest
  \/ stopDisplayTest
  \/ setDecodeMode
  \/ setDecodeNone
  \/ setDecodeAll
  \/ setDigitSegments
  \/ setDigitSegmentsByte
  \/ setDigitSymbol
  \/ clearDisplay
  \/ setDisplayIntensity
  \/ setScanLimit
  \/ encodeByteCall

Spec == Init /\ [][Next]_vars

\* ---------------------------------------------------------------- properties
\* Sum of v[i] * 2^(i-1) over the elements of v.
RECURSIVE WeightedSum(_)
WeightedSum(v) ==
  IF Len(v) = 0 THEN 0 ELSE v[1] + 2 * WeightedSum(Tail(v))

\* The registers named by the frames of a call.
FrameRegisters(fs) == {fs[i][1] : i \in 1..Len(fs)}

DecodeOps == {"setDecodeMode", "setDecodeNone", "setDecodeAll"}
DigitOps == {"setDigitSegmentsByte", "setDigitSegments", "setDigitSymbol"}

\* C1: in every reachable state the controller owns exactly one open
\* transport handle, bound to the active address, and setActiveController
\* with an in-range index succeeds and makes that index the active address.
C1_OneOpenHandleBoundToActive ==
  /\ openHandles = {spi}
  /\ spi.device = activeController
  /\ (op = "setActiveController" /\ argN >= 0 /\ argN < totalControllers)
       => (result = "ok" /\ activeController = argN)

\* C2: setActiveController with an index below 0 or at least totalControllers
\* throws the out-of-bounds error, keeps the handle and its open state, keeps
\* the active address, and transfers no frame.
C2_OutOfBoundsChangesNothing ==
  [][(op' = "setActiveController" /\ (argN' < 0 \/ argN' >= totalControllers))
       => /\ result' = ErrBounds
          /\ frames' = <<>>
          /\ spi' = spi
          /\ openHandles' = openHandles
          /\ activeController' = activeController
          /\ totalControllers' = totalControllers
          /\ decodeModes' = decodeModes]_vars

C2_Witness ==
  /\ op = "setActiveController"
  /\ argN >= totalControllers
  /\ result = ErrBounds
  /\ spi \in openHandles

\* C3: setDigitSegments(n, bits) with n in 0..7 and 8 bits succeeds and
\* transfers the single frame (1 + n, sum of bits[i] * 2^i).
C3_SegmentsFrame ==
  (op = "setDigitSegments" /\ argN \in 0..7 /\ Len(argBits) = 8)
    => (result = "ok" /\ frames = << <<1 + argN, WeightedSum(argBits)>> >>)

\* C4: a digit-content operation called with a digit index outside 0..7
\* throws and transfers no frame.
C4_BadDigitNoFrame ==
  (op \in DigitOps /\ (argN < 0 \/ argN > 7))
    => (result # "ok" /\ frames = <<>>)

\* C5: clearDisplay after a decode mode v was set transfers exactly the eight
\* frames to registers 1..8 in ascending order, with data 0x00 for a
\* no-decode digit and, for a decode digit, a blank-symbol byte that is not
\* the raw 0x00 byte.
C5_ClearWritesBlankSymbol ==
  [][(op' = "clearDisplay" /\ decodeModes # Unset)
       => /\ result' = "ok"
          /\ Len(frames') = 8
          /\ \A i \in 1..8 :
               /\ frames'[i][1] = i
               /\ (decodeModes[i] = 0 => frames'[i][2] = 0)
               /\ (decodeModes[i] # 0 => frames'[i][2] # 0)]_vars

\* C6 (as stated): only the decode-mode setters change the stored decode
\* modes or transfer a frame to the DecodeMode register; every other call,
\* clearDisplay included, leaves them unchanged and sends no such frame.
C6_OnlySettersTouchDecodeMode ==
  [][(op' \notin DecodeOps)
       => /\ decodeModes' = decodeModes
          /\ Registers.DecodeMode \notin FrameRegisters(frames')]_vars

\* C6 (amended): the stored decode modes change, and a frame goes to the
\* DecodeMode register, only in a decode-mode setter or in a clearDisplay
\* made while the decode modes were never set; that clearDisplay stores
\* all-no-decode and sends (0x09, 0x00) first, followed by digit frames only.
C6_SettersOrFirstClear ==
  [][(decodeModes' # decodeModes \/ Registers.DecodeMode \in FrameRegisters(frames'))
       => \/ op' \in DecodeOps
          \/ /\ op' = "clearDisplay"
             /\ decodeModes = Unset
             /\ decodeModes' = <<0, 0, 0, 0, 0, 0, 0, 0>>
             /\ frames'[1] = <<9, 0>>
             /\ \A i \in 2..Len(frames') : frames'[i][1] # 9]_vars

C6_Witness ==
  /\ op = "clearDisplay"
  /\ Len(frames) = 9
  /\ frames[1] = <<9, 0>>
  /\ decodeModes = <<0, 0, 0, 0, 0, 0, 0, 0>>

\* C7: setDigitSymbol(n, symbol, dp) with n in 0..7 never throws and
\* transfers the single frame (1 + n, pattern with bit 7 set when dp), the
\* pattern being the font entry of the symbol or 0 when it has none;
\* setDigitSymbol(3, "9", true) sends (4, 0xFB).
C7_SymbolFrame ==
  LET pattern == IF argSym \in DOMAIN Font THEN Font[argSym] ELSE 0
      data == IF argDp /\ pattern < 128 THEN pattern + 128 ELSE pattern
  IN /\ (op = "setDigitSymbol" /\ argN \in 0..7)
          => (result = "ok" /\ frames = << <<1 + argN, data>> >>)
     /\ (op = "setDigitSymbol" /\ argN = 3 /\ argSym = "9" /\ argDp)
          => frames = << <<4, 251>> >>

C7_Witness ==
  /\ op = "setDigitSymbol"
  /\ argN = 3
  /\ argSym = "9"
  /\ argDp
  /\ result = "ok"
  /\ Len(frames) = 1

\* C8: setDecodeMode with a vector of length other than 8,
\* setDisplayIntensity outside 0..15 and setScanLimit outside 1..8 throw,
\* transfer no frame and leave the controller's state unchanged.
C8_InvalidConfigChangesNothing ==
  [][( \/ (op' = "setDecodeMode" /\ Len(argBits') # 8)
       \/ (op' = "setDisplayIntensity" /\ (argN' < 0 \/ argN' > 15))
       \/ (op' = "setScanLimit" /\ (argN' < 1 \/ argN' > 8)) )
       => /\ result' = (IF op' = "setDecodeMode" THEN ErrDecode
                        ELSE IF op' = "setDisplayIntensity" THEN ErrBrightness
                        ELSE ErrScanLimit)
          /\ frames' = <<>>
          /\ decodeModes' = decodeModes
          /\ activeController' = activeController
          /\ totalControllers' = totalControllers
          /\ spi' = spi
          /\ openHandles' = openHandles]_vars

C8_Witness ==
  /\ op = "setDecodeMode"
  /\ Len(argBits) = 7
  /\ result = ErrDecode
  /\ frames = <<>>

\* C9: with valid arguments setScanLimit(l) sends (0x0B, l - 1),
\* setDisplayIntensity(b) sends (0x0A, b), and setDecodeMode(v) sends
\* (0x09, sum of v[i] * 2^i) and stores v; [1,0,1,0,1,0,1,0] sends 0x55,
\* setDecodeNone sends 0x00 and setDecodeAll sends 0xFF.
C9_ConfigFrames ==
  /\ (op = "setScanLimit" /\ argN \in 1..8)
       => (result = "ok" /\ frames = << <<11, argN - 1>> >>)
  /\ (op = "setDisplayIntensity" /\ argN \in 0..15)
       => (result = "ok" /\ frames = << <<10, argN>> >>)
  /\ (op = "setDecodeMode" /\ Len(argBits) = 8)
       => /\ result = "ok"
          /\ frames = << <<9, WeightedSum(argBits)>> >>
          /\ decodeModes = argBits
  /\ (op = "setDecodeMode" /\ argBits = <<1, 0, 1, 0, 1, 0, 1, 0>>)
       => frames = << <<9, 85>> >>
  /\ (op = "setDecodeNone")
       => /\ result = "ok"
          /\ frames = << <<9, 0>> >>
          /\ decodeModes = <<0, 0, 0, 0, 0, 0, 0, 0>>
  /\ (op = "setDecodeAll")
       => /\ result = "ok"
          /\ frames = << <<9, 255>> >>
          /\ decodeModes = <<1, 1, 1, 1, 1, 1, 1, 1>>

C9_Witness ==
  /\ op = "setDecodeMode"
  /\ argBits = <<1, 0, 1, 0, 1, 0, 1, 0>>
  /\ frames = << <<9, 85>> >>
  /\ decodeModes = argBits

\* C10: encodeByte rejects every bit sequence whose length is not 8; it
\* returns no value for a shorter or longer one.
C10_EncodeByteRejectsBadLength ==
  (op = "encodeByte" /\ Len(argBits) # 8) => result \notin {"ok", "NaN"}

====
